---- MODULE Spec2Model ----
(***************************************************************************)
(* Enterprise (src/main.c): the UEFI chain-loading front end.  The model   *)
(* follows efi_main from firmware entry through ReadConfigurationFile (the *)
(* boot option store builder), the required-file checks, DisplayMenu and   *)
(* BootLinuxWithOptions (the launcher).                                    *)
(*                                                                         *)
(* CHAR8 strings are sequences of characters; a CHAR8 pointer is NULL      *)
(* (the empty tuple) or Ptr(s), so that an unset field and an empty string *)
(* are different values, as they are in the C code.  List nodes and boot   *)
(* options live in two heaps (distros, options) addressed by index, with 0 *)
(* as the null pointer.                                                    *)
(***************************************************************************)
EXTENDS Integers, Sequences, FiniteSets

\* ---------------------------------------------------------------- bounds
\* Longest configuration file, in directives.
MaxDirectives == 4
\* Largest option index the menu hands to the launcher.
MaxIndex == 2

\* The console has at most this many text modes.
MaxModes == 6

\* ---------------------------------------------------------------- strings
NULL == <<>>
Ptr(s) == <<s>>
Deref(p) == p[1]

EmptyStr == <<>>
NameA == <<"A">>
NameB == <<"B">>
Ubuntu == <<"u", "b", "u", "n", "t", "u">>
Unknownos == <<"u", "n", "k", "n", "o", "w", "n", "o", "s">>
CustomKernel == <<"/", "c", "u", "s", "t", "o", "m", "/", "v", "m", "l", "i", "n", "u", "z">>
CustomInitrd == <<"/", "c", "u", "s", "t", "o", "m", "/", "i", "n", "i", "t", "r", "d">>
CustomRoot == <<"/", "c", "u", "s", "t", "o", "m">>
UbuntuKernel == <<"/", "c", "a", "s", "p", "e", "r", "/", "v", "m", "l", "i", "n", "u", "z">>
UbuntuInitrd == <<"/", "c", "a", "s", "p", "e", "r", "/", "i", "n", "i", "t", "r", "d">>
UbuntuFolder == <<"c", "a", "s", "p", "e", "r">>
Timeout == <<"5">>
Quiet == <<"q", "u", "i", "e", "t">>
\* The bytes behind a pointer the program never set.
Garbage == <<"?">>

\* The null character, and a CHAR16 whose low byte is null (U+0100).
NUL == "NUL"
Wide == "U+0100"

\* strlena: the number of characters before the first null; a sequence
\* stands for the bytes up to its terminator, which is not written out.
strlena(s) ==
    IF \E i \in 1 .. Len(s) : s[i] = NUL
    THEN (CHOOSE i \in 1 .. Len(s) : s[i] = NUL /\ \A j \in 1 .. i - 1 : s[j] # NUL) - 1
    ELSE Len(s)

\* strcmpa(a, b) == 0
StrEq(a, b) == a = b

\* ---------------------------------------------------------------- inputs
Directive(k, v) == [key |-> k, value |-> v]

\* The key/value pairs a configuration file is made of.
Directives ==
    { Directive("entry", NameA), Directive("entry", NameB),
      Directive("family", Ubuntu), Directive("family", Unknownos),
      Directive("kernel", CustomKernel), Directive("kernel", EmptyStr),
      Directive("initrd", CustomInitrd),
      Directive("root", CustomRoot),
      Directive("timeout", Timeout) }

RECURSIVE SeqsUpTo(_, _)
SeqsUpTo(S, n) ==
    IF n = 0 THEN { <<>> }
    ELSE LET shorter == SeqsUpTo(S, n - 1)
         IN  shorter \cup { Append(s, d) : s \in { t \in shorter : Len(t) = n - 1 }, d \in S }

ConfigFiles == SeqsUpTo(Directives, MaxDirectives)

\* ---------------------------------------------------------------- registry
\* distribution.c: the table of known families.  The kernel lookup also
\* yields the boot folder; an unknown family yields empty strings.
KernelLocationForDistributionName(name) ==
    IF StrEq(Ubuntu, name) THEN UbuntuKernel ELSE EmptyStr

InitRDLocationForDistributionName(name) ==
    IF StrEq(Ubuntu, name) THEN UbuntuInitrd ELSE EmptyStr

BootFolderForDistributionName(name) ==
    IF StrEq(Ubuntu, name) THEN UbuntuFolder ELSE EmptyStr

\* ---------------------------------------------------------------- state
VARIABLES
    pc,                     \* position of the single thread of control
    unread,                 \* the configuration file from `position' on, as key/value pairs
    entryNames,             \* history: the values of the entry directives consumed
    distros,                \* heap of BootableLinuxDistro nodes
    options,                \* heap of LinuxBootOption records
    freed,                  \* indices of options given to FreePool
    distributionListRoot,   \* global: head of the list, 0 when NULL
    conductor,              \* ReadConfigurationFile: the cursor
    lowmem,                 \* what the program stored at address 0
    can_continue,           \* efi_main
    persistence,            \* preset_options_array[4]
    printed,                \* diagnostics shown so far
    ret,                    \* efi_main's return status, "none" while running
    params,                 \* BootLinuxWithOptions: extra kernel parameters
    distribution,           \* BootLinuxWithOptions: the option index
    boot_params,            \* BootLinuxWithOptions: the option found
    efivars,                \* firmware variable writes, in order
    calls,                  \* the launcher's firmware and console calls, in order
    path,                   \* the device path of the second-stage loader
    bootRet,                \* BootLinuxWithOptions' return status
    absent,                 \* the required files FileExists reported missing
    firstRun,               \* an earlier run of ReadConfigurationFile, if any
    highestModeNumberAvailable,
    available,              \* the console modes QueryMode accepts
    queried,                \* the QueryMode calls made, in order
    setMode                 \* the SetMode calls made, in order

parseVars == << unread, entryNames, distros, options, freed, distributionListRoot, lowmem >>
mainVars == << can_continue, persistence, ret, absent >>
bootVars == << params, distribution, boot_params, efivars, calls, path, bootRet >>
displayVars == << highestModeNumberAvailable, available, queried, setMode >>
otherVars == << firstRun, displayVars >>

vars == << pc, unread, entryNames, distros, options, freed, distributionListRoot,
           conductor, lowmem, can_continue, persistence, printed, ret, params,
           distribution, boot_params, efivars, calls, path, bootRet, absent,
           firstRun, highestModeNumberAvailable, available, queried, setMode >>

Msg(m, a) == [msg |-> m, arg |-> a]

\* AllocateZeroPool(sizeof(LinuxBootOption))
ZeroOption ==
    [ name |-> NULL, distro_family |-> NULL, kernel_path |-> NULL,
      initrd_path |-> NULL, boot_folder |-> NULL ]

\* AllocateZeroPool(sizeof(BootableLinuxDistro))
ZeroDistro == [ bootOption |-> 0, next |-> 0 ]

\* The files efi_main requires on the boot volume.
ConfigurationFile == "\\efi\\boot\\.MLUL-Live-USB"
Bootloader == "\\efi\\boot\\boot.efi"
IsoFile == "\\efi\\boot\\boot.iso"

\* No earlier run of ReadConfigurationFile.
NoRun == <<>>

Init ==
    /\ pc = "start"
    /\ unread \in ConfigFiles
    /\ entryNames = <<>>
    /\ distros = <<>>
    /\ options = <<>>
    /\ freed = {}
    /\ distributionListRoot = 0
    /\ conductor = 0
    /\ lowmem = ZeroOption
    /\ can_continue = TRUE
    /\ persistence = FALSE
    /\ printed = {}
    /\ ret = "none"
    /\ params = EmptyStr
    /\ distribution = 0
    /\ boot_params = 0
    /\ efivars = <<>>
    /\ calls = <<>>
    /\ path = "unallocated"
    /\ bootRet = "none"
    /\ absent = {}
    /\ firstRun = NoRun
    /\ highestModeNumberAvailable = 0
    /\ available = {}
    /\ queried = <<>>
    /\ setMode = <<>>

\* ---------------------------------------------------------------- efi_main
\* Lines 44-82: library and console set-up, the loaded image protocol and
\* the root directory of the boot volume.  The result of SetupDisplay (line
\* 52) is not looked at and nothing below reads what it leaves behind; its
\* steps are those of SpecDisplay.
EfiMainStart ==
    /\ pc = "start"
    /\ \/ /\ printed' = printed \cup { Msg("could not find loaded image", <<>>) }
          /\ ret' = "EFI_ERROR"
          /\ pc' = "done"
       \/ /\ printed' = printed \cup { Msg("Unable to open root directory", <<>>) }
          /\ ret' = "EFI_LOAD_ERROR"
          /\ pc' = "done"
       \/ /\ pc' = "check_config"
          /\ UNCHANGED << printed, ret >>
    /\ UNCHANGED << otherVars, parseVars, conductor, absent, can_continue, persistence, bootVars >>

\* Lines 85-89: the marker file doubles as the configuration file.
CheckConfigurationFile ==
    /\ pc = "check_config"
    /\ \E exists \in BOOLEAN :
          IF ~exists
          THEN /\ printed' = printed \cup { Msg("can't find configuration file", <<>>) }
               /\ can_continue' = FALSE
               /\ absent' = absent \cup { ConfigurationFile }
               /\ pc' = "check_grub"
          ELSE /\ pc' = "read_config"
               /\ UNCHANGED << printed, can_continue, absent >>
    /\ UNCHANGED << otherVars, parseVars, conductor, persistence, ret, bootVars >>

\* ------------------------------------------------- ReadConfigurationFile
\* A variant that goes on with the store and the cursor an earlier run left.
ReadConfigurationFile_Begin_KeepsStore ==
    /\ pc = "read_config"
    /\ IF distributionListRoot # 0
       THEN UNCHANGED << distros, distributionListRoot, conductor >>
       ELSE /\ distros' = Append(distros, ZeroDistro)
            /\ distributionListRoot' = Len(distros) + 1
            /\ conductor' = Len(distros) + 1
    /\ printed' = IF Len(unread) = 0
                  THEN printed \cup { Msg("Couldn't read configuration information", <<>>) }
                  ELSE printed
    /\ pc' = "parse"
    /\ UNCHANGED << otherVars, unread, entryNames, options, freed, lowmem, mainVars, bootVars >>

\* Lines 205-216: the sentinel head, the cursor on it, and the file read.
ReadConfigurationFile_Begin ==
    /\ pc = "read_config"
    /\ distros' = Append(distros, ZeroDistro)
    /\ distributionListRoot' = Len(distros) + 1
    /\ conductor' = Len(distros) + 1
    /\ printed' = IF Len(unread) = 0
                  THEN printed \cup { Msg("Couldn't read configuration information", <<>>) }
                  ELSE printed
    /\ pc' = "parse"
    /\ UNCHANGED << otherVars, unread, entryNames, options, freed, lowmem, mainVars, bootVars >>

\* GetConfigurationKeyAndValue: the next key/value pair, if there is one,
\* and the position moved past it.
HasDirective == unread # <<>>
key == Head(unread).key
value == Head(unread).value
Advance == unread' = Tail(unread)

\* conductor->bootOption
ActiveOption == distros[conductor].bootOption

\* Variant: the new node is linked right after the head instead.
LinkAtHead(new, opt) ==
    [ Append(distros, [bootOption |-> opt, next |-> distros[distributionListRoot].next])
        EXCEPT ![distributionListRoot].next = new ]

\* Lines 229-230: the new node goes after the cursor, with nothing after it.
LinkAtTail(new, opt) ==
    [ Append(distros, [bootOption |-> opt, next |-> 0]) EXCEPT ![conductor].next = new ]

\* A variant that links the new node and leaves the cursor where it was.
ParseEntry_KeepsCursor ==
    /\ pc = "parse" /\ HasDirective
    /\ key = "entry"
    /\ LET new == Len(distros) + 1
           opt == Len(options) + 1
       IN  /\ options' = Append(options, [ZeroOption EXCEPT !.name = Ptr(value)])
           /\ distros' = LinkAtTail(new, opt)
    /\ entryNames' = Append(entryNames, value)
    /\ Advance
    /\ UNCHANGED << otherVars, pc, freed, distributionListRoot, conductor, lowmem,
                    printed, mainVars, bootVars >>

\* Lines 224-232: a new node with its own boot option, linked at the tail.
ParseEntry ==
    /\ pc = "parse" /\ HasDirective
    /\ key = "entry"
    /\ LET new == Len(distros) + 1
           opt == Len(options) + 1
       IN  /\ options' = Append(options, [ZeroOption EXCEPT !.name = Ptr(value)])
           /\ distros' = LinkAtTail(new, opt)
           /\ conductor' = new
    /\ entryNames' = Append(entryNames, value)
    /\ Advance
    /\ UNCHANGED << otherVars, pc, freed, distributionListRoot, lowmem, printed,
                    mainVars, bootVars >>

\* The record a family directive leaves behind (lines 235-239).
FamilyFields(rec) ==
    [ rec EXCEPT !.distro_family = Ptr(value),
                 !.kernel_path = Ptr(KernelLocationForDistributionName(value)),
                 !.initrd_path = Ptr(InitRDLocationForDistributionName(value)),
                 !.boot_folder = Ptr(BootFolderForDistributionName(value)) ]

\* Lines 243-244: either resolved path is the empty string.
Unsupported(rec) ==
    \/ StrEq(EmptyStr, Deref(rec.kernel_path))
    \/ StrEq(EmptyStr, Deref(rec.initrd_path))

\* Variant: the unsupported family is reported but the root is kept.
FamilyVerdict_KeepsRoot(rec) ==
    IF Unsupported(rec)
    THEN /\ printed' = printed \cup { Msg("Distribution family is not supported", value) }
         /\ freed' = IF ActiveOption = 0 THEN freed ELSE freed \cup { ActiveOption }
         /\ pc' = "config_read"
         /\ UNCHANGED << unread, distributionListRoot >>
    ELSE /\ Advance
         /\ UNCHANGED << pc, printed, freed, distributionListRoot >>

\* Lines 245-249: the diagnostic, the release of the option, the null root.
FamilyVerdict(rec) ==
    IF Unsupported(rec)
    THEN /\ printed' = printed \cup { Msg("Distribution family is not supported", value) }
         /\ freed' = IF ActiveOption = 0 THEN freed ELSE freed \cup { ActiveOption }
         /\ distributionListRoot' = 0
         /\ pc' = "config_read"
         /\ UNCHANGED unread
    ELSE /\ Advance
         /\ UNCHANGED << pc, printed, freed, distributionListRoot >>

\* Lines 234-250.  With the cursor on the sentinel, conductor->bootOption is
\* NULL and the stores go through a null pointer: the machine faults, or the
\* stores land in the memory at address 0 and are read back from there.
ParseFamily ==
    /\ pc = "parse" /\ HasDirective
    /\ key = "family"
    /\ \/ /\ ActiveOption # 0
          /\ options' = [options EXCEPT ![ActiveOption] = FamilyFields(@)]
          /\ FamilyVerdict(options'[ActiveOption])
          /\ UNCHANGED lowmem
       \/ /\ ActiveOption = 0
          /\ lowmem' = FamilyFields(lowmem)
          /\ FamilyVerdict(lowmem')
          /\ UNCHANGED options
       \/ /\ ActiveOption = 0
          /\ pc' = "parse_fault"
          /\ UNCHANGED << unread, options, lowmem, printed, freed, distributionListRoot >>
    /\ UNCHANGED << otherVars, entryNames, distros, conductor, mainVars, bootVars >>

\* Variant: a field that is already set is kept.
Override_KeepsFirst(k, field) ==
    /\ pc = "parse" /\ HasDirective
    /\ key = k
    /\ ActiveOption # 0
    /\ options' = [options EXCEPT ![ActiveOption][field] = IF @ = NULL THEN Ptr(value) ELSE @]
    /\ Advance
    /\ UNCHANGED << otherVars, pc, lowmem, entryNames, distros, freed, distributionListRoot,
                    conductor, printed, mainVars, bootVars >>

\* Lines 252-257: one field of the active option is replaced.
Override(k, field) ==
    /\ pc = "parse" /\ HasDirective
    /\ key = k
    /\ \/ /\ ActiveOption # 0
          /\ options' = [options EXCEPT ![ActiveOption][field] = Ptr(value)]
          /\ Advance
          /\ UNCHANGED << pc, lowmem >>
       \/ /\ ActiveOption = 0
          /\ lowmem' = [lowmem EXCEPT ![field] = Ptr(value)]
          /\ Advance
          /\ UNCHANGED << pc, options >>
       \/ /\ ActiveOption = 0
          /\ pc' = "parse_fault"
          /\ UNCHANGED << unread, options, lowmem >>
    /\ UNCHANGED << otherVars, entryNames, distros, freed, distributionListRoot, conductor, printed,
                    mainVars, bootVars >>

ParseKernel == Override("kernel", "kernel_path")
ParseInitrd == Override("initrd", "initrd_path")
ParseRoot == Override("root", "boot_folder")

RecognizedKeys == { "entry", "family", "kernel", "initrd", "root" }

\* A variant that treats an unknown key as it treats an unknown family.
ParseUnrecognized_Fatal ==
    /\ pc = "parse" /\ HasDirective
    /\ key \notin RecognizedKeys
    /\ printed' = printed \cup { Msg("Unrecognized configuration option", <<key>>) }
    /\ distributionListRoot' = 0
    /\ pc' = "config_read"
    /\ UNCHANGED << otherVars, unread, entryNames, distros, options, freed, conductor,
                    lowmem, mainVars, bootVars >>

\* Lines 258-260.
ParseUnrecognized ==
    /\ pc = "parse" /\ HasDirective
    /\ key \notin RecognizedKeys
    /\ printed' = printed \cup { Msg("Unrecognized configuration option", <<key>>) }
    /\ Advance
    /\ UNCHANGED << otherVars, pc, entryNames, distros, options, freed, distributionListRoot,
                    conductor, lowmem, mainVars, bootVars >>

\* Line 218 yields no further pair: the function returns (line 264).
ParseEnd ==
    /\ pc = "parse" /\ ~HasDirective
    /\ pc' = "config_read"
    /\ UNCHANGED << otherVars, parseVars, conductor, printed, mainVars, bootVars >>

\* ---------------------------------------------------------------- efi_main
\* A variant that never looks at the store the build returned.
CheckParsedStore_IgnoresNull ==
    /\ pc = "config_read"
    /\ pc' = "check_grub"
    /\ UNCHANGED << otherVars, parseVars, conductor, mainVars, printed, bootVars >>

\* Lines 90-93.
CheckParsedStore ==
    /\ pc = "config_read"
    /\ IF distributionListRoot = 0
       THEN /\ printed' = printed \cup { Msg("configuration file parsing error", <<>>) }
            /\ can_continue' = FALSE
       ELSE UNCHANGED << printed, can_continue >>
    /\ pc' = "check_grub"
    /\ UNCHANGED << otherVars, parseVars, conductor, absent, persistence, ret, bootVars >>

\* A variant that reports a missing file and carries on regardless.
RequireFile_StillContinues(here, file, message, there) ==
    /\ pc = here
    /\ \E exists \in BOOLEAN :
          IF ~exists
          THEN /\ printed' = printed \cup { Msg(message, <<>>) }
               /\ absent' = absent \cup { file }
          ELSE UNCHANGED << printed, absent >>
    /\ pc' = there
    /\ UNCHANGED << otherVars, parseVars, conductor, can_continue, persistence, ret,
                    bootVars >>

\* A required file: lines 96-99 and 101-104.
RequireFile(here, file, message, there) ==
    /\ pc = here
    /\ \E exists \in BOOLEAN :
          IF ~exists
          THEN /\ printed' = printed \cup { Msg(message, <<>>) }
               /\ can_continue' = FALSE
               /\ absent' = absent \cup { file }
          ELSE UNCHANGED << printed, can_continue, absent >>
    /\ pc' = there
    /\ UNCHANGED << otherVars, parseVars, conductor, persistence, ret, bootVars >>

CheckBootloader ==
    RequireFile("check_grub", Bootloader, "can't find GRUB bootloader", "check_iso")
CheckIso ==
    RequireFile("check_iso", IsoFile, "can't find ISO file to boot", "check_persistence")

\* Lines 108-113.
CheckPersistence ==
    /\ pc = "check_persistence"
    /\ \E exists \in BOOLEAN :
          IF exists /\ can_continue
          THEN /\ printed' = printed \cup { Msg("Found a persistence file", <<>>) }
               /\ persistence' = TRUE
          ELSE UNCHANGED << printed, persistence >>
    /\ pc' = "decide"
    /\ UNCHANGED << otherVars, parseVars, conductor, absent, can_continue, ret, bootVars >>

\* Lines 116-122.
Decide ==
    /\ pc = "decide"
    /\ IF can_continue
       THEN /\ pc' = "DisplayMenu"
            /\ UNCHANGED << printed, ret >>
       ELSE /\ printed' = printed \cup { Msg("Cannot continue", <<>>) }
            /\ ret' = "EFI_LOAD_ERROR"
            /\ pc' = "done"
    /\ UNCHANGED << otherVars, parseVars, conductor, absent, can_continue, persistence, bootVars >>

\* ---------------------------------------------------------------- menu
\* The extra kernel parameters the menu can hand over (CHAR16 text).
ParamsChoices == { EmptyStr, Quiet }

\* menu.c: the operator's choice reaches the launcher as (params, index).
DisplayMenu ==
    /\ pc = "DisplayMenu"
    /\ \E p \in ParamsChoices, i \in 0 .. MaxIndex :
          /\ params' = p
          /\ distribution' = i
    /\ pc' = "boot"
    /\ UNCHANGED << otherVars, parseVars, conductor, mainVars, printed, boot_params, efivars,
                    calls, path, bootRet >>

\* ------------------------------------------------- BootLinuxWithOptions
\* utils.c: every CHAR16 becomes the CHAR8 of its low byte; n counts the
\* terminator, which the sequence leaves out.
Narrow(c) == IF c = Wide THEN NUL ELSE c
UTF16toASCII(s, n) == [ i \in 1 .. n - 1 |-> Narrow(s[i]) ]

\* utils.c: efi_set_variable hands (name, buf, size) to SetVariable.
VarWrite(n, b, sz) == [ name |-> n, buf |-> b, size |-> sz ]

\* A variant whose length leaves the terminator out.
BootSetOptions_NoTerminator ==
    /\ pc = "boot"
    /\ LET sized_str == UTF16toASCII(params, Len(params) + 1)
       IN  efivars' = Append(efivars,
               VarWrite("Enterprise_LinuxBootOptions", Ptr(sized_str),
                        1 * strlena(sized_str)))
    /\ calls' = Append(calls, "efi_set_variable")
    /\ pc' = "boot_find"
    /\ UNCHANGED << otherVars, parseVars, conductor, mainVars, printed, params, distribution,
                    boot_params, path, bootRet >>

\* Lines 148-150.
BootSetOptions ==
    /\ pc = "boot"
    /\ LET sized_str == UTF16toASCII(params, Len(params) + 1)
       IN  efivars' = Append(efivars,
               VarWrite("Enterprise_LinuxBootOptions", Ptr(sized_str),
                        1 * strlena(sized_str) + 1))
    /\ calls' = Append(calls, "efi_set_variable")
    /\ pc' = "boot_find"
    /\ UNCHANGED << otherVars, parseVars, conductor, mainVars, printed, params, distribution,
                    boot_params, path, bootRet >>

\* Line 155: i steps along next, stopping at NULL.
RECURSIVE Walk(_, _)
Walk(node, steps) ==
    IF steps = 0 \/ node = 0 THEN node ELSE Walk(distros[node].next, steps - 1)

\* Variant: the walk starts on the head itself.
FirstDistro_Sentinel == distributionListRoot

\* Line 153: the first real node.
FirstDistro == distros[distributionListRoot].next

\* A boot option pointer read out of memory the program never wrote.
Wild == -1

\* Lines 157-160 and the fall-through to line 162.
OptionVerdict(found) ==
    IF found = 0
    THEN /\ calls' = calls \o << "DisplayErrorText", "return" >>
         /\ bootRet' = "EFI_LOAD_ERROR"
         /\ pc' = "boot_returned"
         /\ UNCHANGED boot_params
    ELSE /\ boot_params' = found
         /\ pc' = "boot_kernel"
         /\ UNCHANGED << calls, bootRet >>

\* Lines 153-160.  When the walk ends on NULL, conductor->bootOption reads
\* the word at address 0: the machine faults, or the word read is null, or
\* it is some other value.
BootFindOption ==
    /\ pc = "boot_find"
    /\ LET last == Walk(FirstDistro, distribution)
       IN  \/ /\ last # 0
              /\ OptionVerdict(distros[last].bootOption)
           \/ /\ last = 0
              /\ \E word \in { 0, Wild } : OptionVerdict(word)
           \/ /\ last = 0
              /\ pc' = "boot_fault"
              /\ UNCHANGED << boot_params, calls, bootRet >>
    /\ UNCHANGED << otherVars, parseVars, conductor, mainVars, printed, params, distribution,
                    efivars, path >>

\* boot_params->field (lines 162-164).
OptionField(field) ==
    IF boot_params = Wild THEN Ptr(Garbage) ELSE options[boot_params][field]

\* A pointer strlena can follow: set by the program to a string.
Readable(p) == p # NULL /\ p # Ptr(Garbage)

\* The length strlena finds behind any other pointer: whatever lies before
\* the first null byte there.  No value the program computes equals it.
Indeterminate == -1

\* Variant: a path that is not set is skipped instead of written.
BootSetPath_SkipsUnset(here, name, field, there) ==
    /\ pc = here
    /\ LET p == IF boot_params = -1 THEN NULL ELSE options[boot_params][field]
       IN  IF p # NULL
           THEN /\ efivars' = Append(efivars, [name |-> name, buf |-> p, size |-> Len(p[1]) + 1])
                /\ calls' = Append(calls, "efi_set_variable")
           ELSE UNCHANGED << efivars, calls >>
    /\ pc' = there
    /\ UNCHANGED << otherVars, parseVars, conductor, mainVars, printed, params, distribution,
                    boot_params, path, bootRet >>

\* Lines 166-171, one variable each.  strlena of a pointer that is null or
\* was never set scans whatever memory is there: the machine faults, or
\* some length comes back and that many bytes of that memory are stored.
BootSetPath(here, name, field, there) ==
    /\ pc = here
    /\ LET p == OptionField(field)
       IN  \/ /\ Readable(p)
              /\ efivars' = Append(efivars, VarWrite(name, p, 1 * strlena(Deref(p)) + 1))
              /\ calls' = Append(calls, "efi_set_variable")
              /\ pc' = there
           \/ /\ ~Readable(p)
              /\ efivars' = Append(efivars, VarWrite(name, p, Indeterminate))
              /\ calls' = Append(calls, "efi_set_variable")
              /\ pc' = there
           \/ /\ ~Readable(p)
              /\ pc' = "boot_fault"
              /\ UNCHANGED << efivars, calls >>
    /\ UNCHANGED << otherVars, parseVars, conductor, mainVars, printed, params, distribution,
                    boot_params, path, bootRet >>

BootSetKernelPath ==
    BootSetPath("boot_kernel", "Enterprise_LinuxKernelPath", "kernel_path", "boot_initrd")
BootSetInitRDPath ==
    BootSetPath("boot_initrd", "Enterprise_InitRDPath", "initrd_path", "boot_folder")
BootSetBootFolder ==
    BootSetPath("boot_folder", "Enterprise_BootFolder", "boot_folder", "boot_load")

\* Lines 177-182 and 189-195: the report, the pause, the release, the return.
\* In `calls' a failed firmware call is followed by its status, "EFI_ERROR".
\* A variant that returns without releasing the device path.
FailureReport_LeaksPath == << "DisplayErrorText", "Stall", "return" >>

FailureReport == << "DisplayErrorText", "Stall", "FreePool", "return" >>

\* Lines 174-183.
BootLoadImage ==
    /\ pc = "boot_load"
    /\ \E loaded \in BOOLEAN :
          IF loaded
          THEN /\ calls' = calls \o << "FileDevicePath", "LoadImage" >>
               /\ path' = "allocated"
               /\ pc' = "boot_start"
               /\ UNCHANGED bootRet
          ELSE /\ calls' = calls \o << "FileDevicePath", "LoadImage", "EFI_ERROR" >> \o FailureReport
               /\ path' = "freed"
               /\ bootRet' = "EFI_LOAD_ERROR"
               /\ pc' = "boot_returned"
    /\ UNCHANGED << otherVars, parseVars, conductor, mainVars, printed, params, distribution,
                    boot_params, efivars >>

\* Lines 186-200.  A started image that takes over never returns.
BootStartImage ==
    /\ pc = "boot_start"
    /\ \/ /\ calls' = calls \o << "ClearScreen", "StartImage" >>
          /\ pc' = "transferred"
          /\ UNCHANGED << path, bootRet >>
       \/ /\ calls' = calls \o << "ClearScreen", "StartImage", "EFI_ERROR" >> \o FailureReport
          /\ path' = "freed"
          /\ bootRet' = "EFI_LOAD_ERROR"
          /\ pc' = "boot_returned"
       \/ /\ calls' = calls \o << "ClearScreen", "StartImage", "Stall", "return" >>
          /\ bootRet' = "EFI_SUCCESS"
          /\ pc' = "boot_returned"
          /\ UNCHANGED path
    /\ UNCHANGED << otherVars, parseVars, conductor, mainVars, printed, params, distribution,
                    boot_params, efivars >>

\* Line 124: the menu has returned.
EfiMainReturn ==
    /\ pc = "boot_returned"
    /\ ret' = "EFI_SUCCESS"
    /\ pc' = "done"
    /\ UNCHANGED << otherVars, parseVars, conductor, absent, can_continue, persistence, printed, bootVars >>

Next ==
    \/ EfiMainStart
    \/ CheckConfigurationFile
    \/ ReadConfigurationFile_Begin
    \/ ParseEntry
    \/ ParseFamily
    \/ ParseKernel
    \/ ParseInitrd
    \/ ParseRoot
    \/ ParseUnrecognized
    \/ ParseEnd
    \/ CheckParsedStore
    \/ CheckBootloader
    \/ CheckIso
    \/ CheckPersistence
    \/ Decide
    \/ DisplayMenu
    \/ BootSetOptions
    \/ BootFindOption
    \/ BootSetKernelPath
    \/ BootSetInitRDPath
    \/ BootSetBootFolder
    \/ BootLoadImage
    \/ BootStartImage
    \/ EfiMainReturn

Spec == Init /\ [][Next]_vars

\* ======================================================================
\* Properties
\* ======================================================================

\* The nodes reached from `node' by following next, at most `fuel' of them.
RECURSIVE ListFrom(_, _)
ListFrom(node, fuel) ==
    IF node = 0 \/ fuel = 0 THEN <<>>
    ELSE << node >> \o ListFrom(distros[node].next, fuel - 1)

\* The store as a sequence of nodes, the sentinel first.
StoreNodes ==
    IF distributionListRoot = 0 THEN <<>>
    ELSE ListFrom(distributionListRoot, Len(distros) + 1)

\* The boot options of the real entries, in list order.
RealOptions ==
    LET nodes == StoreNodes
    IN  [ k \in 1 .. Len(nodes) - 1 |-> distros[nodes[k + 1]].bootOption ]

\* The build has returned to efi_main, or the program is past that point.
BuildReturned == pc \notin { "start", "check_config", "read_config", "parse", "parse_fault" }

Called(fn) == \E i \in 1 .. Len(calls) : calls[i] = fn

PathFields == { "kernel_path", "initrd_path", "boot_folder" }

\* ---------------------------------------------------------------- C1
\* The kernel or the initrd lookup yields the empty string.
Unregistered(family) ==
    \/ KernelLocationForDistributionName(family) = EmptyStr
    \/ InitRDLocationForDistributionName(family) = EmptyStr

\* C1: a family directive whose value the registry does not know ends the
\* build at once: the function returns with distributionListRoot null, the
\* offending directive and everything after it still unread and the list
\* untouched, however many entries came before; and nothing outside the
\* builder ever reads a directive or sets the root again.  (With the cursor
\* still on the sentinel the stores may fault instead, and then the
\* function does not return at all.)
C1_UnknownFamilyInvalidatesStore ==
    [][ IF pc = "parse" /\ HasDirective /\ key = "family" /\ Unregistered(value)
        THEN \/ pc' = "parse_fault" /\ ActiveOption = 0
             \/ /\ pc' = "config_read"
                /\ distributionListRoot' = 0
                /\ unread' = unread
                /\ distros' = distros
        ELSE pc \notin { "read_config", "parse" } =>
                /\ unread' = unread
                /\ distributionListRoot' = distributionListRoot ]_vars

\* Two valid entries were appended, then the unknown family was met.
C1_Witness ==
    /\ pc = "config_read"
    /\ distributionListRoot = 0
    /\ unread # <<>> /\ Head(unread) = Directive("family", Unknownos)
    /\ Len(entryNames) = 2
    /\ options[1].kernel_path = Ptr(UbuntuKernel)

\* ---------------------------------------------------------------- C2
\* C2: a launch with an index at or beyond the number of real entries writes
\* no firmware variable, never reaches LoadImage and returns a failure.
C2_NoWriteForIndexBeyondStore ==
    (distributionListRoot # 0 /\ distribution >= Len(RealOptions)) =>
        /\ efivars = <<>>
        /\ ~Called("LoadImage")
        /\ pc = "boot_returned" => bootRet = "EFI_LOAD_ERROR"

\* ---------------------------------------------------------------- C3
\* C3: once the build has returned a store, the store is the sentinel, which
\* carries no boot option, followed by exactly one node per entry directive
\* of the file, the k-th node carrying the name of the k-th entry directive.
\* This holds of every configuration, well-formed or not.
C3_StoreInFileOrder ==
    (BuildReturned /\ distributionListRoot # 0) =>
        LET nodes == StoreNodes
            real == RealOptions
        IN  /\ Len(nodes) = Len(entryNames) + 1
            /\ distros[nodes[1]].bootOption = 0
            /\ \A k \in 1 .. Len(entryNames) :
                  /\ real[k] # 0
                  /\ options[real[k]].name = Ptr(entryNames[k])

\* A well-formed file with two entries, B before A, each resolved.
C3_Witness ==
    /\ pc = "config_read"
    /\ distributionListRoot # 0
    /\ unread = <<>>
    /\ entryNames = << NameB, NameA >>
    /\ Len(StoreNodes) = 3
    /\ \A k \in 1 .. 2 :
          /\ options[RealOptions[k]].kernel_path \notin { NULL, Ptr(EmptyStr) }
          /\ options[RealOptions[k]].initrd_path \notin { NULL, Ptr(EmptyStr) }

\* ---------------------------------------------------------------- C4
\* Both paths are set and neither is the empty string.
Usable(opt) ==
    /\ options[opt].kernel_path \notin { NULL, Ptr(EmptyStr) }
    /\ options[opt].initrd_path \notin { NULL, Ptr(EmptyStr) }

\* C4: whenever the build returns a store, every real entry in it has a
\* kernel path and an initrd path that are set and not empty.
C4_EveryEntryUsable ==
    (BuildReturned /\ distributionListRoot # 0) =>
        \A k \in 1 .. Len(RealOptions) : Usable(RealOptions[k])

\* ---------------------------------------------------------------- C5
PastStoreCheck == { "check_grub", "check_iso", "check_persistence", "decide" }
MenuOrLauncher ==
    { "DisplayMenu", "boot", "boot_find", "boot_kernel", "boot_initrd", "boot_folder",
      "boot_load", "boot_start", "boot_returned", "boot_fault", "transferred" }

\* C5: a configuration that yields no entry stops efi_main: can_continue is
\* false once the build has been looked at, and neither the menu nor the
\* launcher is ever entered.
C5_NoEntriesNoMenu ==
    entryNames = <<>> =>
        /\ pc \in PastStoreCheck => ~can_continue
        /\ pc \notin MenuOrLauncher

\* ---------------------------------------------------------------- C6
Names(k, field) ==
    \/ k = "family"
    \/ k = "kernel" /\ field = "kernel_path"
    \/ k = "initrd" /\ field = "initrd_path"
    \/ k = "root" /\ field = "boot_folder"

Given(k, v, field) ==
    IF k # "family" THEN v
    ELSE IF field = "kernel_path" THEN KernelLocationForDistributionName(v)
    ELSE IF field = "initrd_path" THEN InitRDLocationForDistributionName(v)
    ELSE BootFolderForDistributionName(v)

\* C6: a directive consumed with the cursor on a real entry leaves each of
\* the three path fields of that entry equal to the value the directive gives
\* it (kernel, initrd and root their own value, family the registry's three
\* defaults) whatever the field held before, leaves the fields it does not
\* name as they were, and changes no other entry.
C6_LastDirectiveWins ==
    [][ (pc = "parse" /\ HasDirective /\ ActiveOption # 0) =>
          /\ \A f \in PathFields :
                options'[ActiveOption][f] =
                    IF Names(key, f) THEN Ptr(Given(key, value, f))
                    ELSE options[ActiveOption][f]
          /\ \A o \in DOMAIN options : o # ActiveOption => options'[o] = options[o]
      ]_vars

\* family=ubuntu, then kernel=/custom/vmlinuz for the second entry; the
\* first entry still holds what its own directive gave it.
C6_Witness ==
    /\ pc = "config_read"
    /\ Len(options) = 2
    /\ options[2].distro_family = Ptr(Ubuntu)
    /\ options[2].kernel_path = Ptr(CustomKernel)
    /\ options[2].initrd_path = Ptr(UbuntuInitrd)
    /\ options[2].boot_folder = Ptr(UbuntuFolder)
    /\ options[1].kernel_path = NULL

\* ---------------------------------------------------------------- C7
VariableNames ==
    << "Enterprise_LinuxBootOptions", "Enterprise_LinuxKernelPath",
       "Enterprise_InitRDPath", "Enterprise_BootFolder" >>

WrittenNames == [ i \in 1 .. Len(efivars) |-> efivars[i].name ]

\* C7: a launch writes each of the four variables at most once and in the
\* order options, kernel path, initrd path, boot folder; when LoadImage is
\* attempted all four have been written; and no write follows LoadImage.
\* A launch of a valid index stops short of LoadImage only by faulting on a
\* path the chosen entry never had set.
C7_FourWritesBeforeLoadImage ==
    calls # <<>> =>
        LET writes == { i \in 1 .. Len(calls) : calls[i] = "efi_set_variable" }
            loads == { i \in 1 .. Len(calls) : calls[i] \in { "FileDevicePath", "LoadImage" } }
        IN  /\ Len(efivars) <= 4
            /\ WrittenNames = SubSeq(VariableNames, 1, Len(efivars))
            /\ Cardinality(writes) = Len(efivars)
            /\ (pc \in { "boot_load", "boot_start" } \/ loads # {}) => Len(efivars) = 4
            /\ \A i \in loads, j \in writes : j < i
            /\ (pc = "boot_fault" /\ distribution < Len(entryNames)) =>
                  \E f \in PathFields : options[boot_params][f] = NULL

\* A valid index, all four written, LoadImage done and failed.
C7_Witness ==
    /\ pc = "boot_returned"
    /\ distribution < Len(RealOptions)
    /\ Len(efivars) = 4
    /\ Called("LoadImage")
    /\ bootRet = "EFI_LOAD_ERROR"

\* ---------------------------------------------------------------- C8
FieldOf(name) ==
    IF name = "Enterprise_LinuxKernelPath" THEN "kernel_path"
    ELSE IF name = "Enterprise_InitRDPath" THEN "initrd_path"
    ELSE "boot_folder"

\* C8: in a launch with a valid index i, the option found is that of the
\* (i+1)-th entry directive, and every kernel path, initrd path and boot
\* folder write passes that entry's own field.
C8_LaunchPersistsChosenEntry ==
    (efivars # <<>> /\ distribution < Len(entryNames)) =>
        LET chosen == RealOptions[distribution + 1]
        IN  /\ options[chosen].name = Ptr(entryNames[distribution + 1])
            /\ pc \in { "boot_kernel", "boot_initrd", "boot_folder", "boot_load", "boot_start" }
                  => boot_params = chosen
            /\ \A i \in 2 .. Len(efivars) :
                  efivars[i].buf = options[chosen][FieldOf(efivars[i].name)]

\* Index 1 of two entries whose paths differ: the second entry's are written.
C8_Witness ==
    /\ pc = "boot_load"
    /\ distribution = 1
    /\ Len(RealOptions) = 2
    /\ options[RealOptions[1]].kernel_path = Ptr(CustomKernel)
    /\ Len(efivars) = 4
    /\ efivars[2].buf = Ptr(UbuntuKernel)
    /\ efivars[3].buf = Ptr(UbuntuInitrd)
    /\ efivars[4].buf = Ptr(UbuntuFolder)

\* ---------------------------------------------------------------- C9
\* C9: a family, kernel, initrd or root directive met while the cursor is on
\* the sentinel is a hard parse failure: the build returns at once with a
\* null root, and nothing is stored through the sentinel's null bootOption.
C9_DirectiveBeforeEntryFailsHard ==
    [][ (/\ pc = "parse" /\ HasDirective
         /\ key \in { "family", "kernel", "initrd", "root" }
         /\ ActiveOption = 0)
        => /\ pc' = "config_read"
           /\ distributionListRoot' = 0
           /\ lowmem' = lowmem ]_vars

\* ---------------------------------------------------------------- C10
MessageThenStall ==
    \E i, j \in 1 .. Len(calls) :
        i < j /\ calls[i] = "DisplayErrorText" /\ calls[j] = "Stall"

LoadFailed ==
    \E i \in 1 .. Len(calls) - 1 : calls[i] = "LoadImage" /\ calls[i + 1] = "EFI_ERROR"

\* C10: every failure return of the launcher comes after an error message
\* and then a Stall, and StartImage is never called after a failed
\* LoadImage.
C10_FailureIsReportedThenDelayed ==
    /\ (pc = "boot_returned" /\ bootRet # "EFI_SUCCESS") =>
          /\ MessageThenStall
          /\ calls[Len(calls)] = "return"
    /\ LoadFailed => ~Called("StartImage")

\* ---------------------------------------------------------- SetupDisplay
\* SetupDisplay (lines 127-141) as efi_main calls it at line 52, before
\* anything else has run.  The firmware accepts QueryMode for the modes in
\* available; mode 1 may be missing while higher modes exist.
InitDisplay ==
    /\ pc = "query_mode"
    /\ available \in SUBSET (0 .. MaxModes - 1)
    /\ highestModeNumberAvailable = 0
    /\ queried = <<>>
    /\ setMode = <<>>
    /\ unread = <<>>
    /\ entryNames = <<>>
    /\ distros = <<>>
    /\ options = <<>>
    /\ freed = {}
    /\ distributionListRoot = 0
    /\ conductor = 0
    /\ lowmem = ZeroOption
    /\ can_continue = TRUE
    /\ persistence = FALSE
    /\ printed = {}
    /\ ret = "none"
    /\ params = EmptyStr
    /\ distribution = 0
    /\ boot_params = 0
    /\ efivars = <<>>
    /\ calls = <<>>
    /\ path = "unallocated"
    /\ bootRet = "none"
    /\ absent = {}
    /\ firstRun = NoRun

\* Lines 131-136: one turn of the do-while loop.  The counter is stepped
\* after every query, the failing one included.
SetupDisplay_QueryMode ==
    /\ pc = "query_mode"
    /\ queried' = Append(queried, highestModeNumberAvailable)
    /\ printed' = printed \cup { Msg("Detected mode", << highestModeNumberAvailable >>) }
    /\ pc' = IF highestModeNumberAvailable \in available THEN "query_mode" ELSE "set_mode"
    /\ highestModeNumberAvailable' = highestModeNumberAvailable + 1
    /\ UNCHANGED << available, setMode, firstRun, parseVars, conductor, mainVars, bootVars >>

\* Lines 138-140.
SetupDisplay_SetMode ==
    /\ pc = "set_mode"
    /\ printed' = printed \cup
                    { Msg("Setting display to be in mode", << highestModeNumberAvailable - 1 >>) }
    /\ setMode' = Append(setMode, highestModeNumberAvailable - 1)
    /\ pc' = "display_set"
    /\ UNCHANGED << highestModeNumberAvailable, available, queried, firstRun, parseVars,
                    conductor, mainVars, bootVars >>

NextDisplay ==
    \/ SetupDisplay_QueryMode
    \/ SetupDisplay_SetMode

SpecDisplay == InitDisplay /\ [][NextDisplay]_vars

\* ----------------------------------------- ReadConfigurationFile, twice
\* ReadConfigurationFile called on a file and, once it has returned, called
\* again on the same file, with distributionListRoot and the heap as the
\* first call left them.  firstRun keeps the file and what the first call
\* returned.
StoreShape ==
    [ null |-> distributionListRoot = 0,
      entries |-> LET opts == RealOptions
                  IN  [ k \in 1 .. Len(opts) |-> options[opts[k]] ] ]

InitTwice ==
    /\ pc = "read_config"
    /\ unread \in ConfigFiles
    /\ entryNames = <<>>
    /\ distros = <<>>
    /\ options = <<>>
    /\ freed = {}
    /\ distributionListRoot = 0
    /\ conductor = 0
    /\ lowmem = ZeroOption
    /\ can_continue = TRUE
    /\ persistence = FALSE
    /\ printed = {}
    /\ ret = "none"
    /\ params = EmptyStr
    /\ distribution = 0
    /\ boot_params = 0
    /\ efivars = <<>>
    /\ calls = <<>>
    /\ path = "unallocated"
    /\ bootRet = "none"
    /\ absent = {}
    /\ highestModeNumberAvailable = 0
    /\ available = {}
    /\ queried = <<>>
    /\ setMode = <<>>
    /\ firstRun = << [ file |-> unread, returned |-> FALSE, store |-> StoreShape ] >>

\* The second call: the same file from its start; the globals stay.
ReadConfigurationFile_Again ==
    /\ pc = "config_read"
    /\ ~firstRun[1].returned
    /\ firstRun' = << [ firstRun[1] EXCEPT !.returned = TRUE, !.store = StoreShape ] >>
    /\ unread' = firstRun[1].file
    /\ entryNames' = <<>>
    /\ pc' = "read_config"
    /\ UNCHANGED << displayVars, distros, options, freed, distributionListRoot, conductor,
                    lowmem, printed, mainVars, bootVars >>

NextTwice ==
    \/ ReadConfigurationFile_Begin
    \/ ParseEntry
    \/ ParseFamily
    \/ ParseKernel
    \/ ParseInitrd
    \/ ParseRoot
    \/ ParseUnrecognized
    \/ ParseEnd
    \/ ReadConfigurationFile_Again

SpecTwice == InitTwice /\ [][NextTwice]_vars

\* ---------------------------------------------------------------- C11
\* The positions in the call record of the calls to fn.
CallsTo(fn) == { i \in 1 .. Len(calls) : calls[i] = fn }

LauncherFailedAfterPath ==
    pc = "boot_returned" /\ bootRet = "EFI_LOAD_ERROR" /\ Called("FileDevicePath")

StartSucceeded == pc = "transferred" \/ bootRet = "EFI_SUCCESS"

\* C11: the device path is released exactly once on every failure return
\* that follows its allocation (LoadImage failed, StartImage failed), is
\* not released where StartImage succeeds, and is never released before it
\* is allocated or more than once.
C11_PathReleasedOnceOnFailure ==
    calls # <<>> =>
        LET frees == CallsTo("FreePool")
            allocs == CallsTo("FileDevicePath")
        IN  /\ Cardinality(frees) <= 1
            /\ \A f \in frees : \E a \in allocs : a < f
            /\ (path = "freed") <=> (frees # {})
            /\ (path = "unallocated") <=> (allocs = {})
            /\ LauncherFailedAfterPath =>
                   /\ Cardinality(frees) = 1
                   /\ \A f \in frees : \E r \in CallsTo("return") : f < r
            /\ StartSucceeded => frees = {} /\ path = "allocated"

C11_Witness ==
    /\ pc = "boot_returned"
    /\ bootRet = "EFI_LOAD_ERROR"
    /\ Called("StartImage")
    /\ Cardinality(CallsTo("FreePool")) = 1
    /\ path = "freed"

\* ---------------------------------------------------------------- C12
\* ReadConfigurationFile ran and left no store behind.
StoreRejected ==
    /\ distros # <<>>
    /\ distributionListRoot = 0
    /\ pc \in PastStoreCheck \cup { "done" }

Reported(message) == Msg(message, <<>>) \in printed

\* C12: efi_main enters the menu only when the configuration file exists,
\* the store built from it is not null, and boot.efi and boot.iso exist.
\* When one of these fails its error is shown, neither the menu nor the
\* launcher is ever entered, and efi_main returns EFI_LOAD_ERROR.
C12_MenuOnlyWhenAllChecksPass ==
    /\ (pc \in MenuOrLauncher \/ ret = "EFI_SUCCESS") =>
          /\ absent = {}
          /\ distros # <<>>
          /\ distributionListRoot # 0
    /\ ConfigurationFile \in absent => Reported("can't find configuration file")
    /\ Bootloader \in absent => Reported("can't find GRUB bootloader")
    /\ IsoFile \in absent => Reported("can't find ISO file to boot")
    /\ StoreRejected => Reported("configuration file parsing error")
    /\ (absent # {} \/ StoreRejected) =>
          /\ ~can_continue
          /\ pc \notin MenuOrLauncher
          /\ calls = <<>>
          /\ pc = "done" => ret = "EFI_LOAD_ERROR" /\ Reported("Cannot continue")

C12_Witness ==
    /\ pc = "done"
    /\ absent = { IsoFile }
    /\ Len(entryNames) = 2
    /\ distributionListRoot # 0
    /\ ret = "EFI_LOAD_ERROR"

\* ---------------------------------------------------------------- C13
\* The runs of efi_main over a configuration file that names a family the
\* registry does not know.  The build never reaches the end of such a file
\* and the menu is never entered, so the steps are those of lines 44-122 and
\* 203-260.  efi_main runs each of its steps in turn; nothing preempts it.
HasUnsupportedFamily(file) ==
    \E i \in 1 .. Len(file) : file[i].key = "family" /\ Unregistered(file[i].value)

InitUnsupported == Init /\ HasUnsupportedFamily(unread)

NextUnsupported ==
    \/ EfiMainStart
    \/ CheckConfigurationFile
    \/ ReadConfigurationFile_Begin
    \/ ParseEntry
    \/ ParseFamily
    \/ ParseKernel
    \/ ParseInitrd
    \/ ParseRoot
    \/ ParseUnrecognized
    \/ CheckParsedStore
    \/ CheckBootloader
    \/ CheckIso
    \/ CheckPersistence
    \/ Decide

SpecUnsupported ==
    InitUnsupported /\ [][NextUnsupported]_vars /\ WF_vars(NextUnsupported)

\* The diagnostic of line 245 is on the console, naming an unknown family.
UnsupportedShown ==
    \E m \in printed : m.msg = "Distribution family is not supported"

BuildFailureReported ==
    /\ pc = "done"
    /\ ret = "EFI_LOAD_ERROR"
    /\ Reported("configuration file parsing error")
    /\ Reported("Cannot continue")

\* C13: a configuration with an unsupported family fails end to end: the
\* diagnostic names the family, the build returns no store, efi_main shows
\* the parsing error and returns EFI_LOAD_ERROR, and the launcher is never
\* invoked.
C13_UnsupportedFamilyEndToEnd ==
    /\ [](UnsupportedShown =>
            /\ \A m \in printed :
                  m.msg = "Distribution family is not supported" => Unregistered(m.arg)
            /\ distributionListRoot = 0
            /\ pc \notin MenuOrLauncher
            /\ calls = <<>> /\ efivars = <<>>
            /\ pc \in PastStoreCheck => ~can_continue)
    /\ (UnsupportedShown ~> BuildFailureReported)

\* entry=A, family=unknownos: the run has ended.
C13_Witness ==
    /\ BuildFailureReported
    /\ Msg("Distribution family is not supported", Unknownos) \in printed
    /\ entryNames = << NameA >>
    /\ unread = << Directive("family", Unknownos) >>

\* ---------------------------------------------------------------- C14
\* C14: a directive whose key is none of entry, family, kernel, initrd and
\* root is not fatal and leaves the store as it was (the nodes, the cursor
\* and every field of every option); its diagnostic is shown and the build
\* goes on with the directive after it.
C14_UnrecognizedKeyIsSkipped ==
    [][ (pc = "parse" /\ HasDirective /\ key \notin RecognizedKeys)
        => /\ UNCHANGED << distros, options, conductor, distributionListRoot,
                          lowmem, freed, entryNames >>
           /\ Msg("Unrecognized configuration option", <<key>>) \in printed'
           /\ unread' = Tail(unread)
           /\ pc' = "parse" ]_vars

\* An unknown key was met after the first entry and the second entry and its
\* family were still taken in.
C14_Witness ==
    /\ pc = "config_read"
    /\ Msg("Unrecognized configuration option", << "timeout" >>) \in printed
    /\ distributionListRoot # 0
    /\ entryNames = << NameA, NameB >>
    /\ options[2].kernel_path = Ptr(UbuntuKernel)
    /\ unread = <<>>

\* ---------------------------------------------------------------- C18
\* C18: while a build runs and when it returns a store, the store is a
\* well-formed list: the walk along next from distributionListRoot meets no
\* node twice and ends on NULL, it visits the sentinel and then one node
\* for each entry directive taken in so far, the cursor is the last node
\* of the walk, and every node after the sentinel has a boot option.
C18_StoreIsWellFormedList ==
    (pc \in { "parse", "config_read" } /\ distributionListRoot # 0) =>
        LET nodes == StoreNodes
            n == Len(nodes)
        IN  /\ n = Len(entryNames) + 1
            /\ \A i, j \in 1 .. n : nodes[i] = nodes[j] => i = j
            /\ distros[nodes[n]].next = 0
            /\ conductor = nodes[n]
            /\ \A i \in 2 .. n : distros[nodes[i]].bootOption # 0

\* The build is under way with two entries taken in and more to read.
C18_Witness ==
    /\ pc = "parse"
    /\ distributionListRoot # 0
    /\ Len(entryNames) = 2
    /\ Len(StoreNodes) = 3
    /\ conductor = StoreNodes[3]
    /\ unread # <<>>

\* ---------------------------------------------------------------- C17
\* The first mode QueryMode rejects: it accepts 0 .. k-1 and fails for k.
FirstUnavailable ==
    CHOOSE k \in 0 .. MaxModes : k \notin available /\ \A j \in 0 .. k - 1 : j \in available

\* C17: when QueryMode accepts the modes 0 .. k-1 and fails for k, the loop
\* stops at that first failure and SetMode is called once, with k-1, the
\* highest mode that was accepted.
C17_SetsHighestAvailableMode ==
    pc = "display_set" =>
        LET k == FirstUnavailable
        IN  /\ queried = [ i \in 1 .. k + 1 |-> i - 1 ]
            /\ setMode = << k - 1 >>

\* ---------------------------------------------------------------- C15
SecondRunReturned == pc = "config_read" /\ firstRun[1].returned

\* C15: two calls of ReadConfigurationFile on the same file return stores
\* of the same shape: both null or both not, with the same number of
\* entries in the same order and the same name, family, kernel path, initrd
\* path and boot folder in each; what the first call left in
\* distributionListRoot and on the heap does not show in the second.
C15_SecondRunBuildsSameStore ==
    SecondRunReturned => StoreShape = firstRun[1].store

\* Both calls returned a store of two entries.
C15_Witness ==
    /\ SecondRunReturned
    /\ ~StoreShape.null
    /\ Len(StoreShape.entries) = 2
    /\ StoreShape.entries[2].kernel_path = Ptr(UbuntuKernel)
    /\ Len(distros) = 6

\* ---------------------------------------------------------------- C16
\* The bytes SetVariable takes for a write: the first size bytes at buf,
\* where the string lies followed by its terminator.
StoredBytes(w) == SubSeq(Deref(w.buf) \o << NUL >>, 1, w.size)

NullBytes(bytes) == { i \in 1 .. Len(bytes) : bytes[i] = NUL }

\* C16: every write of a string value, of any length down to the empty
\* string, passes the number of its characters plus one as the length, so
\* that what is stored is the whole value followed by exactly one null
\* byte; the write of the kernel parameters is always such a write.
C16_LengthIsCharactersPlusOne ==
    efivars # <<>> =>
        /\ Readable(efivars[1].buf)
        /\ Deref(efivars[1].buf) = params
        /\ \A i \in 1 .. Len(efivars) :
              LET w == efivars[i]
              IN  Readable(w.buf) =>
                     /\ w.size = Len(Deref(w.buf)) + 1
                     /\ StoredBytes(w) = Deref(w.buf) \o << NUL >>
                     /\ NullBytes(StoredBytes(w)) = { w.size }

\* All four values written: the parameters, an empty kernel path, and the
\* family's initrd path and boot folder.
C16_Witness ==
    /\ Len(efivars) = 4
    /\ efivars[1].buf = Ptr(Quiet) /\ efivars[1].size = Len(Quiet) + 1
    /\ efivars[2].buf = Ptr(EmptyStr) /\ efivars[2].size = 1
    /\ efivars[3].buf = Ptr(UbuntuInitrd) /\ efivars[3].size = Len(UbuntuInitrd) + 1
    /\ efivars[4].buf = Ptr(UbuntuFolder) /\ efivars[4].size = Len(UbuntuFolder) + 1

====
